---- MODULE Spec2Model ----
(***************************************************************************)
(* Huffman coding engine of txtCompress (src/app.py): construir_arvore,    *)
(* gerar_codigos and comprimir, together with the binary heap of heapq on  *)
(* which construir_arvore relies.                                          *)
(*                                                                         *)
(* Texts and codes are sequences: a text is a sequence of one-character    *)
(* strings, a code is a sequence of bits (0 for the character '0', 1 for   *)
(* the character '1').  NoHuffman objects live in the object store `nos`   *)
(* and are referred to by their index, so that two nodes with equal        *)
(* fields are still two objects; the reference None is the index 0.        *)
(* Python lists are 0-based, sequences are 1-based: position p of the code *)
(* is position p + 1 here.                                                 *)
(***************************************************************************)
EXTENDS Integers, Sequences, FiniteSets, TLC

\* ---------------------------------------------------------------- bounds
MaxLen == 5          \* longest input text drawn exhaustively
MaxLenEnc == 3       \* longest text handed to comprimir on its own
MaxCodeLen == 3      \* longest codeword of the reference prefix codes

Alphabet == {"a", "b", "c", "d"}

\* the skewed input "aaaaaaaab"
Skewed == <<"a", "a", "a", "a", "a", "a", "a", "a", "b">>

\* an input with the frequencies 1, 1, 2, 3: "abccddd"
Fibonacci == <<"a", "b", "c", "c", "d", "d", "d">>

SeqsUpTo(S, n) == UNION {[1..m -> S] : m \in 0..n}

Textos == SeqsUpTo(Alphabet, MaxLen) \cup {Skewed, Fibonacci}

\* ---------------------------------------------------------------- values
NoneRef == 0             \* the reference None (left, right, raiz)
NoneChar == "None"       \* char of an internal node: None
EmptyDict == [c \in {} |-> <<>>]

VARIABLES
  texto,             \* the input text
  pc,                \* position of the program
  i,                 \* next position of the loop `for char in texto`
  frequencias,       \* the dict frequencias, as its items in insertion order
  j,                 \* next item of the loop over frequencias.items()
  nos,               \* the NoHuffman objects created so far
  heap,              \* the list heap (references into nos)
  no1, no2,          \* the nodes popped by the latest loop iteration
  iteracoes,         \* completed iterations of the while loop
  raiz,              \* the returned root (NoneRef: None)
  codigos,           \* the returned code table
  texto_comprimido   \* the result of comprimir

vars == <<texto, pc, i, frequencias, j, nos, heap, no1, no2, iteracoes,
          raiz, codigos, texto_comprimido>>

\* ------------------------------------------------------------- NoHuffman
NoHuffman(char, freq) ==
  [char |-> char, freq |-> freq, left |-> NoneRef, right |-> NoneRef]

\* mutant: the comparison is reversed
LtReversed(ns, a, b) == ns[a].freq > ns[b].freq

\* NoHuffman.__lt__
Lt(ns, a, b) == ns[a].freq < ns[b].freq

\* ----------------------------------------------------------------- heapq
\* heapq._siftdown(heap, startpos, pos): move heap[pos] up towards startpos
RECURSIVE siftdown_loop(_, _, _, _, _)
siftdown_loop(ns, h, newitem, startpos, pos) ==
  IF pos > startpos
    THEN LET parentpos == pos \div 2
             parent == h[parentpos]
         IN IF Lt(ns, newitem, parent)
              THEN siftdown_loop(ns, [h EXCEPT ![pos] = parent], newitem,
                                 startpos, parentpos)
              ELSE [h EXCEPT ![pos] = newitem]
    ELSE [h EXCEPT ![pos] = newitem]

siftdown(ns, h, startpos, pos) == siftdown_loop(ns, h, h[pos], startpos, pos)

\* heapq._siftup(heap, pos): bubble the smaller child up until a leaf is
\* hit, then sift the displaced item down to its place
RECURSIVE siftup_loop(_, _, _)
siftup_loop(ns, h, pos) ==
  LET endpos == Len(h)
      childpos == 2 * pos
      rightpos == childpos + 1
  IN IF childpos <= endpos
       THEN LET c == IF rightpos <= endpos /\ ~Lt(ns, h[childpos], h[rightpos])
                       THEN rightpos ELSE childpos
            IN siftup_loop(ns, [h EXCEPT ![pos] = h[c]], c)
       ELSE <<h, pos>>

siftup(ns, h, pos) ==
  LET newitem == h[pos]
      r == siftup_loop(ns, h, pos)
  IN siftdown(ns, [r[1] EXCEPT ![r[2]] = newitem], pos, r[2])

\* heapq.heappush(heap, item)
heappush(ns, h, item) == siftdown(ns, Append(h, item), 1, Len(h) + 1)

\* mutant: the last element of the list is returned instead of the smallest
heappopLast(ns, h) == <<h[Len(h)], SubSeq(h, 1, Len(h) - 1)>>

\* heapq.heappop(heap), for a non-empty heap: <<returned item, heap after>>
heappop(ns, h) ==
  LET lastelt == h[Len(h)]
      rest == SubSeq(h, 1, Len(h) - 1)
  IN IF rest # <<>>
       THEN <<rest[1], siftup(ns, [rest EXCEPT ![1] = lastelt], 1)>>
       ELSE <<lastelt, rest>>

\* ------------------------------------------------------ construir_arvore
\* mutant: the empty text is not recognised
TextoVazioNunca(t) == FALSE

\* `not texto`
TextoVazio(t) == t = <<>>

\* frequencias[char] += 1 on the defaultdict(int): a new key is appended to
\* the insertion order, an existing key keeps its place
Incrementar(fs, char) ==
  IF \E k \in 1..Len(fs) : fs[k].char = char
    THEN [k \in 1..Len(fs) |->
            IF fs[k].char = char
              THEN [fs[k] EXCEPT !.freq = @ + 1] ELSE fs[k]]
    ELSE Append(fs, [char |-> char, freq |-> 1])

\* mutant: the loop stops one merge early
LoopCondEarly(h) == Len(h) > 2

\* `len(heap) > 1`
LoopCond(h) == Len(h) > 1

\* mutant: the new node takes the frequency of its left child only
NovoNoLeftFreq(ns, n1, n2) ==
  [char |-> NoneChar, freq |-> ns[n1].freq, left |-> n1, right |-> n2]

\* novo_no = NoHuffman(None, no1.freq + no2.freq) with its two children
NovoNo(ns, n1, n2) ==
  [char |-> NoneChar, freq |-> ns[n1].freq + ns[n2].freq,
   left |-> n1, right |-> n2]

\* mutant: the single symbol gets the empty path as its code
CodigoUnicoVazio(char) == char :> <<>>

\* codigos = {raiz.char: "0"}
CodigoUnico(char) == char :> <<0>>

\* --------------------------------------------------------- gerar_codigos
\* mutant: descending left does not extend the path
RECURSIVE gerar_codigosNoLeft(_, _, _, _)
gerar_codigosNoLeft(ns, r, codigo_atual, cods) ==
  IF r # NoneRef
    THEN IF ns[r].char # NoneChar
           THEN (ns[r].char :> codigo_atual) @@ cods
           ELSE gerar_codigosNoLeft(ns, ns[r].right, Append(codigo_atual, 1),
                  gerar_codigosNoLeft(ns, ns[r].left, codigo_atual, cods))
    ELSE cods

\* gerar_codigos(raiz, codigo_atual, codigos): the dict after the call
RECURSIVE gerar_codigos(_, _, _, _)
gerar_codigos(ns, r, codigo_atual, cods) ==
  IF r # NoneRef
    THEN IF ns[r].char # NoneChar
           THEN (ns[r].char :> codigo_atual) @@ cods
           ELSE gerar_codigos(ns, ns[r].right, Append(codigo_atual, 1),
                  gerar_codigos(ns, ns[r].left, Append(codigo_atual, 0),
                                cods))
    ELSE cods

\* ------------------------------------------------------------- comprimir
\* codigos.get(char, '')
Get(cods, char) == IF char \in DOMAIN cods THEN cods[char] ELSE <<>>

\* ''.join(codigos.get(char, '') for char in texto)
RECURSIVE Join(_, _)
Join(t, cods) ==
  IF t = <<>> THEN <<>> ELSE Get(cods, Head(t)) \o Join(Tail(t), cods)

\* mutant: the last symbol of the text is not encoded
comprimirTruncated(t, cods) ==
  IF cods = EmptyDict THEN <<>>
  ELSE Join(SubSeq(t, 1, Len(t) - 1), cods)

\* comprimir(texto, codigos)
comprimir(t, cods) ==
  IF cods = EmptyDict THEN <<>> ELSE Join(t, cods)

\* --------------------------------------------------------------- actions
\* the call construir_arvore(texto), for any text
Init ==
  /\ texto \in Textos
  /\ pc = "construir"
  /\ i = 1
  /\ frequencias = <<>>
  /\ j = 1
  /\ nos = <<>>
  /\ heap = <<>>
  /\ no1 = NoneRef
  /\ no2 = NoneRef
  /\ iteracoes = 0
  /\ raiz = NoneRef
  /\ codigos = EmptyDict
  /\ texto_comprimido = <<>>

\* construir_arvore: `if not texto: return None, {}`
RetornoVazio ==
  /\ pc = "construir"
  /\ TextoVazio(texto)
  /\ raiz' = NoneRef
  /\ codigos' = EmptyDict
  /\ pc' = "comprimir"
  /\ UNCHANGED <<texto, i, frequencias, j, nos, heap, no1, no2, iteracoes,
                 texto_comprimido>>

\* construir_arvore: the text is not empty, frequencias = defaultdict(int);
\* a `for` over nothing falls through to the while loop
Entrar ==
  /\ pc = "construir"
  /\ ~TextoVazio(texto)
  /\ frequencias' = <<>>
  /\ i' = 1
  /\ pc' = IF Len(texto) = 0 THEN "laco" ELSE "contar"
  /\ UNCHANGED <<texto, j, nos, heap, no1, no2, iteracoes, raiz, codigos,
                 texto_comprimido>>

\* one iteration of `for char in texto: frequencias[char] += 1`; after the
\* last one, heap = []
Contar ==
  /\ pc = "contar"
  /\ i <= Len(texto)
  /\ frequencias' = Incrementar(frequencias, texto[i])
  /\ i' = i + 1
  /\ IF i = Len(texto)
       THEN pc' = "inserir" /\ heap' = <<>> /\ j' = 1
       ELSE pc' = "contar" /\ UNCHANGED <<heap, j>>
  /\ UNCHANGED <<texto, nos, no1, no2, iteracoes, raiz, codigos,
                 texto_comprimido>>

\* one iteration of `for char, freq in frequencias.items():
\* heapq.heappush(heap, NoHuffman(char, freq))`; after the last one the test
\* `len(heap) == 1` chooses between the single-symbol case and the loop
Inserir ==
  /\ pc = "inserir"
  /\ j <= Len(frequencias)
  /\ LET novo == Len(nos) + 1
         ns == Append(nos, NoHuffman(frequencias[j].char, frequencias[j].freq))
         h == heappush(ns, heap, novo)
     IN /\ nos' = ns
        /\ heap' = h
        /\ j' = j + 1
        /\ pc' = IF j < Len(frequencias) THEN "inserir"
                 ELSE IF Len(h) = 1 THEN "unico" ELSE "laco"
  /\ UNCHANGED <<texto, i, frequencias, no1, no2, iteracoes, raiz, codigos,
                 texto_comprimido>>

\* the single-symbol case: raiz = heappop(heap); codigos = {raiz.char: "0"}
CasoUnico ==
  /\ pc = "unico"
  /\ LET r == heappop(nos, heap)
     IN /\ raiz' = r[1]
        /\ heap' = r[2]
        /\ codigos' = CodigoUnico(nos[r[1]].char)
  /\ pc' = "comprimir"
  /\ UNCHANGED <<texto, i, frequencias, j, nos, no1, no2, iteracoes,
                 texto_comprimido>>

\* one iteration of `while len(heap) > 1`
Fundir ==
  /\ pc = "laco"
  /\ LoopCond(heap)
  /\ \E p1 \in {heappop(nos, heap)} :
     \E p2 \in {heappop(nos, p1[2])} :
     \E ns \in {Append(nos, NovoNo(nos, p1[1], p2[1]))} :
        /\ no1' = p1[1]
        /\ no2' = p2[1]
        /\ nos' = ns
        /\ heap' = heappush(ns, p2[2], Len(ns))
  /\ iteracoes' = iteracoes + 1
  /\ UNCHANGED <<texto, pc, i, frequencias, j, raiz, codigos,
                 texto_comprimido>>

\* after the loop: raiz = heappop(heap) (IndexError on an empty heap);
\* codigos = {}; gerar_codigos(raiz, "", codigos); return raiz, codigos
ExtrairRaiz ==
  /\ pc = "laco"
  /\ ~LoopCond(heap)
  /\ IF heap = <<>>
       THEN /\ pc' = "erro"
            /\ UNCHANGED <<heap, raiz, codigos>>
       ELSE LET r == heappop(nos, heap)
            IN /\ raiz' = r[1]
               /\ heap' = r[2]
               /\ codigos' = gerar_codigos(nos, r[1], <<>>, EmptyDict)
               /\ pc' = "comprimir"
  /\ UNCHANGED <<texto, i, frequencias, j, nos, no1, no2, iteracoes,
                 texto_comprimido>>

\* texto_comprimido_str = comprimir(texto_original, codigos)
Comprimir ==
  /\ pc = "comprimir"
  /\ texto_comprimido' = comprimir(texto, codigos)
  /\ pc' = "fim"
  /\ UNCHANGED <<texto, i, frequencias, j, nos, heap, no1, no2, iteracoes,
                 raiz, codigos>>

Next ==
  \/ RetornoVazio
  \/ Entrar
  \/ Contar
  \/ Inserir
  \/ CasoUnico
  \/ Fundir
  \/ ExtrairRaiz
  \/ Comprimir

Spec == Init /\ [][Next]_vars

\* the program is sequential and synchronous: a step that can be taken is
\* taken
FairSpec == Spec /\ WF_vars(Next)

\* ----------------------------------------------- comprimir as a function
Bits == {<<0>>, <<1>>}

Tabelas == UNION {[S -> Bits] : S \in SUBSET Alphabet}

InitComprimir ==
  /\ texto \in SeqsUpTo(Alphabet, MaxLenEnc)
  /\ codigos \in Tabelas
  /\ pc = "comprimir"
  /\ i = 1
  /\ frequencias = <<>>
  /\ j = 1
  /\ nos = <<>>
  /\ heap = <<>>
  /\ no1 = NoneRef
  /\ no2 = NoneRef
  /\ iteracoes = 0
  /\ raiz = NoneRef
  /\ texto_comprimido = <<>>

NextComprimir == Comprimir

SpecComprimir == InitComprimir /\ [][NextComprimir]_vars

\* ------------------------------------------------- vocabulary of claims
Simbolos(t) == {t[k] : k \in 1..Len(t)}

\* occurrences of the symbol s in the text t
Freq(t, s) == Cardinality({k \in 1..Len(t) : t[k] = s})

Range(h) == {h[k] : k \in 1..Len(h)}

IsPrefix(p, q) == Len(p) <= Len(q) /\ SubSeq(q, 1, Len(p)) = p

RECURSIVE Soma(_, _)
Soma(f, S) ==
  IF S = {} THEN 0
  ELSE LET x == CHOOSE y \in S : TRUE IN f[x] + Soma(f, S \ {x})

\* construir_arvore has returned normally
Retornou == pc \in {"comprimir", "fim"}

K == Cardinality(Simbolos(texto))

\* decoding left to right: at each position the (longest) code that is a
\* prefix of the remaining bits; "?" marks bits no code matches
RECURSIVE Decodificar(_, _)
Decodificar(bits, cods) ==
  IF bits = <<>> THEN <<>>
  ELSE LET m == {s \in DOMAIN cods : IsPrefix(cods[s], bits)}
       IN IF m = {} THEN <<"?">>
          ELSE LET s == CHOOSE x \in m :
                          \A y \in m : Len(cods[y]) <= Len(cods[x])
               IN IF cods[s] = <<>> THEN <<"?">>
                  ELSE <<s>> \o Decodificar(
                         SubSeq(bits, Len(cods[s]) + 1, Len(bits)), cods)

\* total encoded length of the text t under the codeword lengths l
Custo(t, l) == Soma([s \in DOMAIN l |-> Freq(t, s) * l[s]], DOMAIN l)

\* the codeword lengths of the binary prefix codes with non-empty codewords
\* of at most MaxCodeLen bits on the symbols S: exactly the length vectors
\* that satisfy Kraft's inequality, sum of 2^-l[s] <= 1
ComprimentosPrefixo(S) ==
  {l \in [S -> 1..MaxCodeLen] :
     Soma([s \in S |-> 2 ^ (MaxCodeLen - l[s])], S) <= 2 ^ MaxCodeLen}

\* the least total encoded length of t over those prefix codes
MinCusto(t) ==
  LET cs == {Custo(t, l) : l \in ComprimentosPrefixo(Simbolos(t))}
  IN CHOOSE c \in cs : \A d \in cs : c <= d

\* the nodes of the tree below r
RECURSIVE Arvore(_, _)
Arvore(ns, r) ==
  IF r = NoneRef THEN {}
  ELSE {r} \cup Arvore(ns, ns[r].left) \cup Arvore(ns, ns[r].right)

Folha(n) == n.char # NoneChar

\* ----------------------------------------------------------------- claims
\* C1: for a non-empty text, decoding comprimir(texto, codigos) left to
\* right with the table of construir_arvore gives back the text exactly.
C1_RoundTrip ==
  (pc = "fim" /\ texto # <<>>) =>
     Decodificar(texto_comprimido, codigos) = texto

C1_Witness ==
  /\ pc = "fim"
  /\ K >= 3
  /\ Len(texto_comprimido) > Len(texto)
  /\ Decodificar(texto_comprimido, codigos) = texto

\* C2: in the returned code table no symbol's code is a prefix of another
\* symbol's code.
C2_PrefixFree ==
  Retornou =>
    \A s, t \in DOMAIN codigos :
       s # t => ~IsPrefix(codigos[s], codigos[t])

C2_Witness ==
  /\ Retornou
  /\ Cardinality(DOMAIN codigos) = 4
  /\ \E s, t \in DOMAIN codigos : Len(codigos[s]) = 1 /\ Len(codigos[t]) = 3

\* C3: for a non-empty text the table has one code per symbol of the text
\* and its total encoded length, which is the length of the output of
\* comprimir, is the least over all binary prefix codes on those symbols.
C3_Optimal ==
  (pc = "fim" /\ texto # <<>>) =>
     /\ DOMAIN codigos = Simbolos(texto)
     /\ Custo(texto, [s \in DOMAIN codigos |-> Len(codigos[s])])
          = MinCusto(texto)
     /\ Len(texto_comprimido) = MinCusto(texto)

C3_Witness ==
  /\ pc = "fim"
  /\ K = 4
  /\ \E s, t \in Simbolos(texto) : Freq(texto, s) > Freq(texto, t) + 1
  /\ \E s, t \in Simbolos(texto) : Len(codigos[s]) + 1 < Len(codigos[t])
  /\ Len(texto_comprimido) = MinCusto(texto)

C5_MissingSymbolRaises ==
  (codigos # EmptyDict /\ \E k \in 1..Len(texto) : texto[k] \notin DOMAIN codigos)
     => pc \in {"comprimir", "erro"}

\* C6: for n >= 1 copies of one symbol s there is no merge, the root is the
\* leaf (s, n), the table is {s: "0"} and the output is n times '0'.
C6_SingleSymbol ==
  K = 1 =>
     /\ iteracoes = 0
     /\ pc # "erro"
     /\ Retornou =>
          /\ raiz # NoneRef
          /\ nos[raiz] = NoHuffman(texto[1], Len(texto))
          /\ codigos = (texto[1] :> <<0>>)
     /\ pc = "fim" => texto_comprimido = [k \in 1..Len(texto) |-> 0]

C6_Witness ==
  /\ K = 1
  /\ Len(texto) >= 2
  /\ pc = "fim"
  /\ Len(texto_comprimido) = Len(texto)

\* C7 as stated: for "aaaaaaaab" the code of 'a' is strictly shorter than
\* the code of 'b'.
C7_SkewedShorter ==
  (texto = Skewed /\ Retornou) => Len(codigos["a"]) < Len(codigos["b"])

\* C7 amended: for "aaaaaaaab" the code of 'a' is not longer than the code
\* of 'b': both are exactly one bit.
C7_SkewedNotLonger ==
  (texto = Skewed /\ Retornou) =>
     /\ DOMAIN codigos = {"a", "b"}
     /\ Len(codigos["a"]) <= Len(codigos["b"])
     /\ Len(codigos["a"]) = 1
     /\ Len(codigos["b"]) = 1

C7_Witness == texto = Skewed /\ pc = "fim" /\ Len(texto_comprimido) = 9

\* C8: every node is a leaf with a symbol and no children or an internal
\* node without symbol whose two children's frequencies add up to its own;
\* throughout the merge loop the frequencies in the queue add up to the
\* length of the text, and so does the frequency of the returned root.
C8_TreeInvariant ==
  /\ \A n \in 1..Len(nos) :
        \/ /\ Folha(nos[n])
           /\ nos[n].left = NoneRef
           /\ nos[n].right = NoneRef
        \/ /\ ~Folha(nos[n])
           /\ nos[n].left \in 1..(n - 1)
           /\ nos[n].right \in 1..(n - 1)
           /\ nos[n].left # nos[n].right
           /\ nos[n].freq = nos[nos[n].left].freq + nos[nos[n].right].freq
  /\ pc = "laco" =>
        Soma([n \in Range(heap) |-> nos[n].freq], Range(heap)) = Len(texto)
  /\ (Retornou /\ raiz # NoneRef) => nos[raiz].freq = Len(texto)

C8_Witness ==
  /\ pc = "laco"
  /\ iteracoes >= 2
  /\ Len(heap) >= 2
  /\ \E n \in Range(heap) : ~Folha(nos[n])

\* C9: in every iteration of the merge loop the two nodes removed have the
\* two smallest frequencies of the queue, the first removed becomes the
\* left and the second the right child of the new node, and the new node
\* is in the queue when the iteration ends.
C9_TwoSmallest ==
  [][(pc = "laco" /\ iteracoes' = iteracoes + 1) =>
       LET novo_no == Len(nos')
           resto == Range(heap) \ {no1', no2'}
       IN /\ no1' \in Range(heap)
          /\ no2' \in Range(heap)
          /\ no1' # no2'
          /\ nos[no1'].freq <= nos[no2'].freq
          /\ \A n \in resto : nos[no2'].freq <= nos[n].freq
          /\ Len(nos') = Len(nos) + 1
          /\ nos'[novo_no].left = no1'
          /\ nos'[novo_no].right = no2'
          /\ Len(heap') = Len(heap) - 1
          /\ Range(heap') = resto \cup {novo_no}]_vars

C9_Witness ==
  /\ pc = "laco"
  /\ iteracoes >= 1
  /\ nos[no1].freq < nos[no2].freq
  /\ \E n \in Range(heap) : nos[no2].freq < nos[n].freq
  /\ nos[Len(nos)].left = no1
  /\ nos[Len(nos)].right = no2

\* C10: with k >= 2 distinct symbols the merge loop terminates; every
\* iteration lowers the queue size by one, the loop ends after k - 1 merges
\* with one node in the queue, that node is returned as the root, and the
\* tree has k leaves, one per symbol, and k - 1 internal nodes.
C10_Shape ==
  K >= 2 =>
     /\ pc # "erro"
     /\ pc = "laco" =>
          /\ Len(heap) = K - iteracoes
          /\ Len(heap) >= 1
          /\ Len(heap) <= 1 => (iteracoes = K - 1 /\ heap = <<Len(nos)>>)
     /\ Retornou =>
          LET arv == Arvore(nos, raiz)
              folhas == {n \in arv : Folha(nos[n])}
          IN /\ iteracoes = K - 1
             /\ raiz = Len(nos)
             /\ heap = <<>>
             /\ arv = 1..Len(nos)
             /\ Cardinality(folhas) = K
             /\ {nos[n].char : n \in folhas} = Simbolos(texto)
             /\ Cardinality(arv \ folhas) = K - 1

C10_Terminates == []C10_Shape /\ ((K >= 2) ~> Retornou)

C10_Witness ==
  /\ K >= 3
  /\ Retornou
  /\ iteracoes = K - 1
  /\ Cardinality(Arvore(nos, raiz)) = 2 * K - 1

====
